---- MODULE Spec2Model ----
(***************************************************************************)
(* Model of the BladeRf backend of seify (src/src/impls/bladerf1.rs).      *)
(*                                                                         *)
(* The backend is a thin adapter over the libbladerf_rs driver.  The       *)
(* driver is the environment of the model: every driver call either        *)
(* succeeds or fails (the choice is drawn with \E), and the hardware       *)
(* state the driver keeps (per hardware channel tuning, gain, gain mode,   *)
(* attached expansion board, stream activity) is state of the model.       *)
(***************************************************************************)
EXTENDS Integers, Sequences, FiniteSets, TLC

VARIABLES
    freq,        \* hardware channel -> tuned frequency (driver state)
    rate,        \* hardware channel -> sample rate
    bw,          \* hardware channel -> bandwidth
    gainDb,      \* hardware channel -> aggregate gain
    stageDb,     \* hardware channel -> gain of the named stage
    gainMode,    \* hardware channel -> gain mode
    agcCapable,  \* hardware channel -> get_gain_modes succeeds
    xb,          \* attached expansion board
    last,        \* the last Device call and its outcome
    panicked     \* an unwrap() hit Err: the calling thread unwound

hwVars == <<freq, rate, bw, gainDb, stageDb, gainMode, agcCapable, xb>>

devVars == <<hwVars, last, panicked>>

VARIABLES
    now,         \* device time, in the unit of time_ns
    strm,        \* direction -> the streamer object of that direction
    pend,        \* the activate_at / deactivate_at call that is sleeping
    slast        \* the last streamer call that returned

strmVars == <<now, strm, pend, slast>>

VARIABLES
    attached,    \* the bladeRF units on the bus, in enumeration order
    targetLinux, \* the build has target_os = "linux"
    probed,      \* the outcome of the last BladeRf::probe
    opened       \* the last BladeRf::open call and its outcome

openVars == <<attached, targetLinux, probed, opened>>

vars == <<devVars, strmVars, openVars>>

----------------------------------------------------------------------------
(* Types and inputs *)

\* seify::Direction
Dirs == {"Rx", "Tx"}

\* libbladerf_rs::Channel
HwChannels == {"Rx", "Tx"}

\* usize channel indices handed to the Device operations
ChannelIdx == {0, 1, 2, 256}

\* `channel as u8`
AsU8(n) == n % 256

\* Channel::try_from(u8): 0 is the Rx channel, 1 the Tx channel, else Err
ChannelTryFrom(b) ==
    IF b = 0 THEN "Rx" ELSE IF b = 1 THEN "Tx" ELSE "Err"

\* Channel::try_from(channel as u8), before the unwrap()
ChannelOf(channel) == ChannelTryFrom(AsU8(channel))

\* num_channels(_) = Ok(1)
num_channels(direction) == 1

ValidChannel(direction, channel) == channel < num_channels(direction)

----------------------------------------------------------------------------
(* Numeric conversions of the arguments *)

\* `frequency as u64`: a float-to-integer cast saturates, negatives give 0
F64AsU64(x) == IF x < 0 THEN 0 ELSE x

\* `rate as u32`, `bw as u32`
F64AsU32(x) == IF x < 0 THEN 0 ELSE x

\* `gain as i8`: saturates at the ends of i8
F64AsI8(x) == IF x < -128 THEN -128 ELSE IF x > 127 THEN 127 ELSE x

FreqInputs == {1, 3}
RateInputs == {1, 2}
BwInputs   == {1, 2}
GainInputs == {0, 200}
StageNames == {"lna", "txvga1"}

\* BladeRf1::get_gain_stages(channel): the stages of a hardware channel
get_gain_stages(ch) == IF ch = "Rx" THEN {"lna"} ELSE {"txvga1"}

\* ExpansionBoard values the model uses
Boards == {"None", "Xb200"}

\* GainMode::Default / GainMode::Mgc; "Initial" is the mode initialize() left
GainModes == {"Initial", "Default", "Mgc"}

\* f_range.min(): the tuning range starts lower with an XB200 attached
FreqRangeMin(board) == IF board = "Xb200" THEN 0 ELSE 2

Errors == {"ValueError", "NotSupported", "NotFound", "Misc"}

NoCall == [op |-> "none", dir |-> "Rx", channel |-> 0, res |-> "Ok", val |-> 0, flag |-> FALSE]

Call(op, direction, channel, res, val, flag) ==
    [op |-> op, dir |-> direction, channel |-> channel, res |-> res, val |-> val, flag |-> flag]

\* Channel::try_from(..).unwrap() on Err: the call never returns
Unwind(op, direction, channel) ==
    /\ panicked' = TRUE
    /\ last' = Call(op, direction, channel, "Panic", 0, FALSE)

----------------------------------------------------------------------------
(* Device operations: tuning, sample rate, bandwidth *)

\* a getter that reads one per-channel driver value
Getter(op, direction, channel, table) ==
    /\ ~panicked
    /\ IF ChannelOf(channel) = "Err"
       THEN /\ Unwind(op, direction, channel)
            /\ UNCHANGED hwVars
       ELSE /\ \E ok \in BOOLEAN :
                 last' = IF ok
                         THEN Call(op, direction, channel, "Ok", table[ChannelOf(channel)], FALSE)
                         ELSE Call(op, direction, channel, "Misc", 0, FALSE)
            /\ UNCHANGED <<hwVars, panicked>>
    /\ UNCHANGED <<strmVars, openVars>>

frequency(direction, channel) ==
    /\ Getter("frequency", direction, channel, freq)

set_frequency(direction, channel, frequency_) ==
    /\ ~panicked
    /\ \E rangeOk, getXbOk, attachOk, setOk \in BOOLEAN :
         LET below  == frequency_ < FreqRangeMin(xb)
             attach == below /\ getXbOk /\ xb # "Xb200"
             xbNew  == IF attach /\ attachOk THEN "Xb200" ELSE xb
             ch     == ChannelOf(channel)
         IN  IF ~rangeOk
             THEN /\ last' = Call("set_frequency", direction, channel, "Misc", 0, FALSE)
                  /\ UNCHANGED <<hwVars, panicked>>
             ELSE IF below /\ ~getXbOk
             THEN /\ last' = Call("set_frequency", direction, channel, "ValueError", 0, FALSE)
                  /\ UNCHANGED <<hwVars, panicked>>
             ELSE IF attach /\ ~attachOk
             THEN /\ last' = Call("set_frequency", direction, channel, "Misc", 0, FALSE)
                  /\ UNCHANGED <<hwVars, panicked>>
             ELSE IF ch = "Err"
             THEN /\ Unwind("set_frequency", direction, channel)
                  /\ xb' = xbNew
                  /\ UNCHANGED <<freq, rate, bw, gainDb, stageDb, gainMode, agcCapable>>
             ELSE /\ xb' = xbNew
                  /\ freq' = IF setOk THEN [freq EXCEPT ![ch] = F64AsU64(frequency_)] ELSE freq
                  /\ last' = Call("set_frequency", direction, channel,
                                   IF setOk THEN "Ok" ELSE "Misc", 0, FALSE)
                  /\ UNCHANGED <<rate, bw, gainDb, stageDb, gainMode, agcCapable, panicked>>
    /\ UNCHANGED <<strmVars, openVars>>

sample_rate(direction, channel) ==
    /\ Getter("sample_rate", direction, channel, rate)

set_sample_rate(direction, channel, rate_) ==
    /\ ~panicked
    /\ IF ChannelOf(channel) = "Err"
       THEN /\ Unwind("set_sample_rate", direction, channel)
            /\ UNCHANGED hwVars
       ELSE /\ \E ok \in BOOLEAN :
                 /\ rate' = IF ok THEN [rate EXCEPT ![ChannelOf(channel)] = F64AsU32(rate_)] ELSE rate
                 /\ last' = Call("set_sample_rate", direction, channel,
                                  IF ok THEN "Ok" ELSE "Misc", 0, FALSE)
            /\ UNCHANGED <<freq, bw, gainDb, stageDb, gainMode, agcCapable, xb, panicked>>
    /\ UNCHANGED <<strmVars, openVars>>

bandwidth(direction, channel) ==
    /\ Getter("bandwidth", direction, channel, bw)

set_bandwidth(direction, channel, bw_) ==
    /\ ~panicked
    /\ IF ChannelOf(channel) = "Err"
       THEN /\ Unwind("set_bandwidth", direction, channel)
            /\ UNCHANGED hwVars
       ELSE /\ \E ok \in BOOLEAN :
                 /\ bw' = IF ok THEN [bw EXCEPT ![ChannelOf(channel)] = F64AsU32(bw_)] ELSE bw
                 /\ last' = Call("set_bandwidth", direction, channel,
                                  IF ok THEN "Ok" ELSE "Misc", 0, FALSE)
            /\ UNCHANGED <<freq, rate, gainDb, stageDb, gainMode, agcCapable, xb, panicked>>
    /\ UNCHANGED <<strmVars, openVars>>

\* BladeRf::enable_expansion_board(board_type)
enable_expansion_board(board_type) ==
    /\ ~panicked
    /\ \E ok \in BOOLEAN :
         /\ xb' = IF ok THEN board_type ELSE xb
         /\ last' = Call("enable_expansion_board", "Rx", 0, IF ok THEN "Ok" ELSE "Misc", 0, FALSE)
    /\ UNCHANGED <<freq, rate, bw, gainDb, stageDb, gainMode, agcCapable, panicked>>
    /\ UNCHANGED <<strmVars, openVars>>

----------------------------------------------------------------------------
(* Device operations: gain and AGC *)

\* inner.get_gain_modes(channel).is_ok()
supports_agc(direction, channel) ==
    /\ ~panicked
    /\ IF ChannelOf(channel) = "Err"
       THEN /\ Unwind("supports_agc", direction, channel)
       ELSE /\ last' = Call("supports_agc", direction, channel, "Ok", 0,
                             agcCapable[ChannelOf(channel)])
            /\ UNCHANGED panicked
    /\ UNCHANGED <<hwVars, strmVars, openVars>>

\* if agc { GainMode::Default } else { GainMode::Mgc }
GainModeFor(agc_) == IF agc_ THEN "Default" ELSE "Mgc"

enable_agc(direction, channel, agc_) ==
    /\ ~panicked
    /\ IF ChannelOf(channel) = "Err"
       THEN /\ Unwind("enable_agc", direction, channel)
            /\ UNCHANGED hwVars
       ELSE /\ \E ok \in BOOLEAN :
                 /\ gainMode' = IF ok
                                 THEN [gainMode EXCEPT ![ChannelOf(channel)] = GainModeFor(agc_)]
                                 ELSE gainMode
                 /\ last' = Call("enable_agc", direction, channel,
                                  IF ok THEN "Ok" ELSE "Misc", 0, agc_)
            /\ UNCHANGED <<freq, rate, bw, gainDb, stageDb, agcCapable, xb, panicked>>
    /\ UNCHANGED <<strmVars, openVars>>

\* Ok(self.inner.get_gain_mode().is_ok())
agc(direction, channel) ==
    /\ ~panicked
    /\ \E ok \in BOOLEAN :
         last' = Call("agc", direction, channel, "Ok", 0, ok)
    /\ UNCHANGED <<hwVars, panicked, strmVars, openVars>>

\* Ok(BladeRf1::get_gain_stages(channel)): val is the number of stages
gain_elements(direction, channel) ==
    /\ ~panicked
    /\ IF ChannelOf(channel) = "Err"
       THEN /\ Unwind("gain_elements", direction, channel)
       ELSE /\ last' = Call("gain_elements", direction, channel, "Ok",
                             Cardinality(get_gain_stages(ChannelOf(channel))), FALSE)
            /\ UNCHANGED panicked
    /\ UNCHANGED <<hwVars, strmVars, openVars>>

set_gain(direction, channel, gain_) ==
    /\ ~panicked
    /\ IF ChannelOf(channel) = "Err"
       THEN /\ Unwind("set_gain", direction, channel)
            /\ UNCHANGED hwVars
       ELSE /\ \E ok \in BOOLEAN :
                 /\ gainDb' = IF ok THEN [gainDb EXCEPT ![ChannelOf(channel)] = F64AsI8(gain_)] ELSE gainDb
                 /\ last' = Call("set_gain", direction, channel,
                                  IF ok THEN "Ok" ELSE "Misc", 0, FALSE)
            /\ UNCHANGED <<freq, rate, bw, stageDb, gainMode, agcCapable, xb, panicked>>
    /\ UNCHANGED <<strmVars, openVars>>

gain(direction, channel) ==
    /\ Getter("gain", direction, channel, gainDb)

\* Ok(BladeRf1::get_gain_range(channel).into())
gain_range(direction, channel) ==
    /\ ~panicked
    /\ IF ChannelOf(channel) = "Err"
       THEN /\ Unwind("gain_range", direction, channel)
       ELSE /\ last' = Call("gain_range", direction, channel, "Ok", 0, FALSE)
            /\ UNCHANGED panicked
    /\ UNCHANGED <<hwVars, strmVars, openVars>>

set_gain_element(direction, channel, name, gain_) ==
    /\ ~panicked
    /\ IF ChannelOf(channel) = "Err"
       THEN /\ Unwind("set_gain_element", direction, channel)
            /\ UNCHANGED hwVars
       ELSE /\ \E ok \in BOOLEAN :
                 LET done == ok /\ name \in get_gain_stages(ChannelOf(channel))
                 IN  /\ stageDb' = IF done
                                    THEN [stageDb EXCEPT ![ChannelOf(channel)] = F64AsI8(gain_)]
                                    ELSE stageDb
                     /\ last' = Call("set_gain_element", direction, channel,
                                      IF done THEN "Ok" ELSE "Misc", 0, FALSE)
            /\ UNCHANGED <<freq, rate, bw, gainDb, gainMode, agcCapable, xb, panicked>>
    /\ UNCHANGED <<strmVars, openVars>>

gain_element(direction, channel, name) ==
    /\ ~panicked
    /\ IF ChannelOf(channel) = "Err"
       THEN /\ Unwind("gain_element", direction, channel)
       ELSE /\ \E ok \in BOOLEAN :
                 last' = IF ok /\ name \in get_gain_stages(ChannelOf(channel))
                         THEN Call("gain_element", direction, channel, "Ok",
                                   stageDb[ChannelOf(channel)], FALSE)
                         ELSE Call("gain_element", direction, channel, "Misc", 0, FALSE)
            /\ UNCHANGED panicked
    /\ UNCHANGED <<hwVars, strmVars, openVars>>

gain_element_range(direction, channel, name) ==
    /\ ~panicked
    /\ IF ChannelOf(channel) = "Err"
       THEN /\ Unwind("gain_element_range", direction, channel)
       ELSE /\ last' = Call("gain_element_range", direction, channel,
                             IF name \in get_gain_stages(ChannelOf(channel)) THEN "Ok" ELSE "Misc",
                             0, FALSE)
            /\ UNCHANGED panicked
    /\ UNCHANGED <<hwVars, strmVars, openVars>>

----------------------------------------------------------------------------
(* Streamers *)

\* width of the model's time_ns integers (i64 in the source)
TimeBits == 3

RECURSIVE Pow2(_)
Pow2(n) == IF n = 0 THEN 1 ELSE 2 * Pow2(n - 1)

\* i64::MAX at the model's width: the last representable device time
I64Max == Pow2(TimeBits - 1) - 1

\* timed calls are made in the first half of the representable time, so that
\* the sleep of every non-negative t that is not after the call ends by I64Max
MaxCallTime == I64Max \div 2

\* longest channel list handed to rx_streamer / tx_streamer
MaxChans == 2

NoneT == [some |-> FALSE, t |-> 0]

SomeT(t) == [some |-> TRUE, t |-> t]

\* Option<i64> arguments
TimeInputs == {NoneT} \cup {SomeT(t) : t \in {-1, 0, 1, 2}}

\* `t as u64`: reinterprets the two's complement bits
I64AsU64(t) == t % Pow2(TimeBits)

\* no sleep before the transition
SleepNanos_NoSleep(time_ns) == 0

\* sleep(Duration::from_nanos(t as u64)): the time the thread sleeps
SleepNanos(time_ns) == IF time_ns.some THEN I64AsU64(time_ns.t) ELSE 0

ChannelLists == UNION {[1..n -> {0, 1}] : n \in 0..MaxChans}

\* a guard on the length of the list only
ChannelsSupported_LenOnly(channels) == Len(channels) = 1

\* `channels != [0]` negated
ChannelsSupported(channels) == channels = <<0>>

NoStream == [exists |-> FALSE, active |-> FALSE]

NoPending == [pc |-> "idle", k |-> "Rx", op |-> "none", time |-> NoneT,
              callAt |-> 0, wakeAt |-> 0]

NoSCall == [op |-> "none", k |-> "Rx", res |-> "Ok", channels |-> <<>>, ctor |-> 0,
            time |-> NoneT, at |-> 0]

SCall(op, k, res, channels, ctor, time_ns, at) ==
    [op |-> op, k |-> k, res |-> res, channels |-> channels, ctor |-> ctor,
     time |-> time_ns, at |-> at]

\* BladeRf1RxStreamer::new / BladeRf1TxStreamer::new, then the wrapper struct;
\* ctor counts the invocations of the driver's constructor
MakeStreamer(k, op, channels) ==
    /\ pend.pc = "idle"
    /\ IF ~ChannelsSupported(channels)
       THEN /\ slast' = SCall(op, k, "ValueError", channels, 0, NoneT, now)
            /\ UNCHANGED strm
       ELSE \E ok \in BOOLEAN :
                 IF ok
                 THEN /\ strm' = [strm EXCEPT ![k] = [exists |-> TRUE, active |-> FALSE]]
                      /\ slast' = SCall(op, k, "Ok", channels, 1, NoneT, now)
                 ELSE /\ slast' = SCall(op, k, "Misc", channels, 1, NoneT, now)
                      /\ UNCHANGED strm
    /\ UNCHANGED <<now, pend, devVars, openVars>>

rx_streamer(channels) == MakeStreamer("Rx", "rx_streamer", channels)

tx_streamer(channels) == MakeStreamer("Tx", "tx_streamer", channels)

\* deactivate_at forwarding to activate()
ActiveAfter_Always(op) == TRUE

\* the state streamer.activate() / streamer.deactivate() leaves on success
ActiveAfter(op) == op = "activate_at"

\* self.streamer.activate() / .deactivate(), mapped to the call's result
Issue(k, op, time_ns) ==
    \E ok \in BOOLEAN :
        /\ strm' = [strm EXCEPT ![k].active = IF ok THEN ActiveAfter(op) ELSE @]
        /\ slast' = SCall(op, k, IF ok THEN "Ok" ELSE "Misc", <<>>, 0, time_ns, now)

\* activate_at / deactivate_at up to the sleep; without a time, all of it
TimedCall(k, op, time_ns) ==
    /\ strm[k].exists
    /\ pend.pc = "idle"
    /\ IF time_ns.some
       THEN /\ now <= MaxCallTime
            /\ pend' = [pc |-> "sleeping", k |-> k, op |-> op, time |-> time_ns,
                         callAt |-> now, wakeAt |-> now + SleepNanos(time_ns)]
            /\ UNCHANGED <<strm, slast>>
       ELSE /\ Issue(k, op, time_ns)
            /\ UNCHANGED pend
    /\ UNCHANGED <<now, devVars, openVars>>

activate_at(k, time_ns) == TimedCall(k, "activate_at", time_ns)

deactivate_at(k, time_ns) == TimedCall(k, "deactivate_at", time_ns)

\* the sleep is over: the rest of activate_at / deactivate_at
Wake ==
    /\ pend.pc = "sleeping"
    /\ now >= pend.wakeAt
    /\ Issue(pend.k, pend.op, pend.time)
    /\ pend' = NoPending
    /\ UNCHANGED <<now, devVars, openVars>>

\* mtu, read, write, write_all: forwarded to the driver, result mapped
Forward(k, op) ==
    /\ strm[k].exists
    /\ pend.pc = "idle"
    /\ \E ok \in BOOLEAN :
         slast' = SCall(op, k, IF ok THEN "Ok" ELSE "Misc", <<>>, 0, NoneT, now)
    /\ UNCHANGED <<now, strm, pend, devVars, openVars>>

mtu(k) == Forward(k, "mtu")

read == Forward("Rx", "read")

write == Forward("Tx", "write")

write_all == Forward("Tx", "write_all")

\* device time advances; it is an i64 count of the time_ns unit, so it has no
\* value after I64Max.  A sleep of SleepNanos(t) for a negative t is at least
\* I64Max + 1 long at every width: it ends at no device time.
Tick ==
    /\ now < I64Max
    /\ now' = now + 1
    /\ UNCHANGED <<strm, pend, slast, devVars, openVars>>

----------------------------------------------------------------------------
(* Args: strings are sequences of characters *)

Digits == <<"0", "1", "2", "3", "4", "5", "6", "7", "8", "9">>

DigitVal(c) == (CHOOSE i \in 1..10 : Digits[i] = c) - 1

IsDigit(c) == \E i \in 1..10 : Digits[i] = c

\* Display of an unsigned integer: decimal, no leading zeros
RECURSIVE FormatUInt(_)
FormatUInt(n) == IF n < 10 THEN <<Digits[n + 1]>>
                 ELSE FormatUInt(n \div 10) \o <<Digits[(n % 10) + 1]>>

RECURSIVE DecimalVal(_)
DecimalVal(s) == IF s = <<>> THEN 0
                 ELSE 10 * DecimalVal(SubSeq(s, 1, Len(s) - 1)) + DigitVal(s[Len(s)])

\* str::parse::<u8>(): -1 stands for Err
ParseU8(s) ==
    IF s # <<>> /\ (\A i \in 1..Len(s) : IsDigit(s[i])) /\ Len(s) <= 4 /\ DecimalVal(s) <= 255
    THEN DecimalVal(s) ELSE -1

\* str::parse::<i32>() on the descriptors the model uses: -1 stands for Err
ParseFd(s) ==
    IF s # <<>> /\ (\A i \in 1..Len(s) : IsDigit(s[i])) /\ Len(s) <= 4
    THEN DecimalVal(s) ELSE -1

RECURSIVE SplitOn(_, _)
SplitOn(s, c) ==
    IF \A i \in 1..Len(s) : s[i] # c THEN <<s>>
    ELSE LET i == CHOOSE j \in 1..Len(s) : s[j] = c /\ \A h \in 1..(j - 1) : s[h] # c
         IN  <<SubSeq(s, 1, i - 1)>> \o SplitOn(SubSeq(s, i + 1, Len(s)), c)

RECURSIVE Trim(_)
Trim(s) == IF s = <<>> THEN s
           ELSE IF s[1] = " " THEN Trim(SubSeq(s, 2, Len(s)))
           ELSE IF s[Len(s)] = " " THEN Trim(SubSeq(s, 1, Len(s) - 1))
           ELSE s

BadArgs == [ok |-> FALSE, kv |-> <<>>]

\* Args from a filter string: comma-separated key=value, whitespace trimmed
ParseArgs(s) ==
    IF Trim(s) = <<>> THEN [ok |-> TRUE, kv |-> <<>>]
    ELSE LET segs == SplitOn(s, ",")
         IN  IF \E i \in 1..Len(segs) : Len(SplitOn(segs[i], "=")) # 2
             THEN BadArgs
             ELSE [ok |-> TRUE,
                   kv |-> [i \in 1..Len(segs) |->
                             [key |-> Trim(SplitOn(segs[i], "=")[1]),
                              value |-> Trim(SplitOn(segs[i], "=")[2])]]]

HasKey(args, key) == \E i \in 1..Len(args.kv) : args.kv[i].key = key

\* the stored string of a key: the last write wins
Lookup(args, key) ==
    args.kv[CHOOSE i \in 1..Len(args.kv) :
              /\ args.kv[i].key = key
              /\ \A j \in (i + 1)..Len(args.kv) : args.kv[j].key # key].value

K_driver  == <<"d", "r", "i", "v", "e", "r">>
K_bus_id  == <<"b", "u", "s", "_", "i", "d">>
K_address == <<"a", "d", "d", "r", "e", "s", "s">>
K_fd      == <<"f", "d">>
V_bladerf == <<"b", "l", "a", "d", "e", "r", "f">>

\* format!("driver=bladerf, bus_id={}, address={}", dev.bus_id(), dev.device_address())
FormatDev(dev) ==
    K_driver \o <<"=">> \o V_bladerf \o <<",", " ">> \o
    K_bus_id \o <<"=">> \o dev.bus_id \o <<",", " ">> \o
    K_address \o <<"=">> \o FormatUInt(dev.address)

----------------------------------------------------------------------------
(* probe and open *)

Unit1 == [bus_id |-> <<"1">>, address |-> 5]
Unit2 == [bus_id |-> <<"0", "0", "2">>, address |-> 12]
Unit3 == [bus_id |-> <<"1">>, address |-> 12]

AttachedLists == {<<>>, <<Unit1>>, <<Unit1, Unit2>>, <<Unit2, Unit1>>, <<Unit3, Unit1>>}

\* filter strings handed to open besides the probed Args
OpenStrings == {
    <<>>,
    <<"b", "u", "s", "_", "i", "d", "=", "1">>,
    <<"a", "d", "d", "r", "e", "s", "s", "=", "5">>,
    <<"b", "u", "s", "_", "i", "d", "=", "1", ",", " ", "a", "d", "d", "r", "e", "s", "s", "=", "5">>,
    <<"a", "d", "d", "r", "e", "s", "s", "=", "1", "2", " ", ",", "b", "u", "s", "_", "i", "d", "=", " ", "1">>,
    <<"b", "u", "s", "_", "i", "d", "=", "1", ",", " ", "a", "d", "d", "r", "e", "s", "s", "=", "x">>,
    <<"a", "d", "d", "r", "e", "s", "s", "=", "3", "0", "0">>,
    <<"f", "d", "=", "3">>,
    <<"f", "d", "=", "3", ",", " ", "b", "u", "s", "_", "i", "d", "=", "1">>,
    <<"f", "d", "=", "x", ",", " ", "a", "d", "d", "r", "e", "s", "s", "=", "5">>,
    <<"b", "u", "s", "_", "i", "d">> }

NotProbed == [res |-> "none", devs |-> <<>>]

probe ==
    /\ \E listOk \in BOOLEAN :
         LET devs == [i \in 1..Len(attached) |-> ParseArgs(FormatDev(attached[i]))]
         IN  probed' = IF ~listOk THEN [res |-> "NotFound", devs |-> <<>>]
                       ELSE IF \E i \in 1..Len(devs) : ~devs[i].ok
                       THEN [res |-> "ValueError", devs |-> <<>>]
                       ELSE [res |-> "Ok", devs |-> devs]
    /\ UNCHANGED <<attached, targetLinux, opened, devVars, strmVars>>

\* args.get::<i32>("fd") is Ok
FdGiven(args) == HasKey(args, K_fd) /\ ParseFd(Lookup(args, K_fd)) # -1

\* args.get::<String>("bus_id")
GetBusId(args) == IF HasKey(args, K_bus_id) THEN "Ok" ELSE "NotFound"

\* args.get("address"), the type taken from from_bus_addr
GetAddress(args) ==
    IF ~HasKey(args, K_address) THEN "NotFound"
    ELSE IF ParseU8(Lookup(args, K_address)) = -1 THEN "ValueError"
    ELSE "Ok"

\* a match that opens the first device whenever the pair is incomplete
OpenArm_Fallback(bus_id, address) ==
    IF bus_id = "Ok" /\ address = "Ok" THEN "from_bus_addr" ELSE "from_first"

\* the match on (bus_id, address)
OpenArm(bus_id, address) ==
    IF bus_id = "Ok" /\ address = "Ok" THEN "from_bus_addr"
    ELSE IF bus_id = "NotFound" /\ address = "NotFound" THEN "from_first"
    ELSE "invalid"

\* the position of the unit the driver finds for a bus id and an address, or 0
UnitAt(bus, addr) ==
    IF \E i \in 1..Len(attached) : attached[i].bus_id = bus /\ attached[i].address = addr
    THEN CHOOSE i \in 1..Len(attached) : attached[i].bus_id = bus /\ attached[i].address = addr
    ELSE 0

NotOpened == [args |-> BadArgs, res |-> "none", how |-> "none", dev |-> 0,
              bus |-> <<>>, addr |-> 0]

Opened(args, res, how, dev, bus, addr) ==
    [args |-> args, res |-> res, how |-> how, dev |-> dev, bus |-> bus, addr |-> addr]

open(args) ==
    /\ \E ok \in BOOLEAN :
         opened' =
           IF ~args.ok THEN Opened(args, "ValueError", "none", 0, <<>>, 0)
           ELSE IF targetLinux /\ FdGiven(args)
           THEN Opened(args, IF ok THEN "Ok" ELSE "Misc", "from_fd", 0, <<>>, 0)
           ELSE LET arm == OpenArm(GetBusId(args), GetAddress(args))
                IN  IF arm = "from_bus_addr"
                    THEN LET bus  == Lookup(args, K_bus_id)
                             addr == ParseU8(Lookup(args, K_address))
                             unit == UnitAt(bus, addr)
                         IN  IF ok /\ unit # 0
                             THEN Opened(args, "Ok", arm, unit, bus, addr)
                             ELSE Opened(args, "Misc", arm, 0, bus, addr)
                    ELSE IF arm = "from_first"
                    THEN IF ok /\ Len(attached) > 0
                         THEN Opened(args, "Ok", arm, 1, <<>>, 0)
                         ELSE Opened(args, "Misc", arm, 0, <<>>, 0)
                    ELSE Opened(args, "ValueError", "none", 0, <<>>, 0)
    /\ UNCHANGED <<attached, targetLinux, probed, devVars, strmVars>>

\* open on a filter string
OpenString == \E s \in OpenStrings : open(ParseArgs(s))

\* open on an Args that probe returned, unchanged
OpenProbed == \E i \in 1..Len(probed.devs) : open(probed.devs[i])

----------------------------------------------------------------------------
(* Specifications *)

\* the device after open(): initialize() has run, nothing configured yet
DevInit ==
    /\ freq = [c \in HwChannels |-> 3]
    /\ rate = [c \in HwChannels |-> 1]
    /\ bw = [c \in HwChannels |-> 1]
    /\ gainDb = [c \in HwChannels |-> 0]
    /\ stageDb = [c \in HwChannels |-> 0]
    /\ gainMode = [c \in HwChannels |-> "Initial"]
    /\ xb = "None"
    /\ last = NoCall
    /\ panicked = FALSE

StrmInit ==
    /\ now = 0
    /\ strm = [k \in Dirs |-> NoStream]
    /\ pend = NoPending
    /\ slast = NoSCall

OpenInit ==
    /\ probed = NotProbed
    /\ opened = NotOpened

\* one unit on the bus, opened; AGC on the receive channel only
Init ==
    /\ DevInit /\ StrmInit /\ OpenInit
    /\ agcCapable = [c \in HwChannels |-> c = "Rx"]
    /\ attached = <<Unit1>>
    /\ targetLinux = TRUE

\* any AGC capability of the two hardware channels
InitGain ==
    /\ DevInit /\ StrmInit /\ OpenInit
    /\ agcCapable \in [HwChannels -> BOOLEAN]
    /\ attached = <<Unit1>>
    /\ targetLinux = TRUE

\* any of the bus populations, either kind of build
InitOpen ==
    /\ DevInit /\ StrmInit /\ OpenInit
    /\ agcCapable = [c \in HwChannels |-> c = "Rx"]
    /\ attached \in AttachedLists
    /\ targetLinux \in BOOLEAN

NextTune ==
    \/ \E d \in Dirs, c \in ChannelIdx : frequency(d, c)
    \/ \E d \in Dirs, c \in ChannelIdx, f \in FreqInputs : set_frequency(d, c, f)
    \/ \E d \in Dirs, c \in ChannelIdx : sample_rate(d, c)
    \/ \E d \in Dirs, c \in ChannelIdx, r \in RateInputs : set_sample_rate(d, c, r)
    \/ \E d \in Dirs, c \in ChannelIdx : bandwidth(d, c)
    \/ \E d \in Dirs, c \in ChannelIdx, b \in BwInputs : set_bandwidth(d, c, b)
    \/ \E b \in Boards : enable_expansion_board(b)

NextGain ==
    \/ \E d \in Dirs, c \in ChannelIdx : supports_agc(d, c)
    \/ \E d \in Dirs, c \in ChannelIdx, b \in BOOLEAN : enable_agc(d, c, b)
    \/ \E d \in Dirs, c \in ChannelIdx : agc(d, c)
    \/ \E d \in Dirs, c \in ChannelIdx : gain_elements(d, c)
    \/ \E d \in Dirs, c \in ChannelIdx, g \in GainInputs : set_gain(d, c, g)
    \/ \E d \in Dirs, c \in ChannelIdx : gain(d, c)
    \/ \E d \in Dirs, c \in ChannelIdx : gain_range(d, c)
    \/ \E d \in Dirs, c \in ChannelIdx, n \in StageNames, g \in GainInputs :
          set_gain_element(d, c, n, g)
    \/ \E d \in Dirs, c \in ChannelIdx, n \in StageNames : gain_element(d, c, n)
    \/ \E d \in Dirs, c \in ChannelIdx, n \in StageNames : gain_element_range(d, c, n)

NextStream ==
    \/ \E chs \in ChannelLists : rx_streamer(chs)
    \/ \E chs \in ChannelLists : tx_streamer(chs)
    \/ \E k \in Dirs, t \in TimeInputs : activate_at(k, t)
    \/ \E k \in Dirs, t \in TimeInputs : deactivate_at(k, t)
    \/ Wake
    \/ \E k \in Dirs : mtu(k)
    \/ read
    \/ write
    \/ write_all
    \/ Tick

NextOpen ==
    \/ probe
    \/ OpenString
    \/ OpenProbed

Next == NextTune \/ NextGain \/ NextStream \/ NextOpen

Spec == Init /\ [][Next]_vars

\* tuning, sample rate, bandwidth and the expansion board
SpecTune == Init /\ [][NextTune]_vars

\* gain and AGC
SpecGain == InitGain /\ [][NextGain]_vars

\* streamers
SpecStream == Init /\ [][NextStream]_vars

\* streamers; time passes and a thread whose sleep is over runs
FairStream == SpecStream /\ WF_vars(Tick) /\ WF_vars(Wake)

\* discovery and open
SpecOpen == InitOpen /\ [][NextOpen]_vars

TypeOK ==
    /\ freq \in [HwChannels -> Nat]
    /\ gainMode \in [HwChannels -> GainModes]
    /\ xb \in Boards
    /\ panicked \in BOOLEAN
    /\ now \in 0..I64Max
    /\ pend.pc \in {"idle", "sleeping"}

----------------------------------------------------------------------------
(* Claims *)

PerChannelOps == {"supports_agc", "enable_agc", "gain_elements", "set_gain", "gain",
                  "gain_range", "set_gain_element", "gain_element", "gain_element_range",
                  "frequency", "set_frequency", "sample_rate", "set_sample_rate",
                  "bandwidth", "set_bandwidth"}

\* C1: a per-channel Device operation called with a channel index that is
\* not a channel of the device (any index but 0) returns ValueError; it
\* neither panics nor acts on a hardware channel.
C1_InvalidChannelIsValueError ==
    (last.op \in PerChannelOps /\ ~ValidChannel(last.dir, last.channel))
        => (last.res = "ValueError" /\ ~panicked)

\* C2: rx_streamer / tx_streamer with a channel list other than [0] return
\* ValueError, invoke no constructor and leave the streamers alone; with [0]
\* the constructor is invoked once and its failure is a backend error.
C2_StreamerChannels ==
    /\ [](slast.op \in {"rx_streamer", "tx_streamer"} =>
            IF slast.channels = <<0>>
            THEN slast.ctor = 1 /\ slast.res \in {"Ok", "Misc"}
            ELSE slast.ctor = 0 /\ slast.res = "ValueError")
    /\ [][\A chs \in ChannelLists :
            ((rx_streamer(chs) \/ tx_streamer(chs)) /\ chs # <<0>>)
                => (strm' = strm /\ slast'.res = "ValueError" /\ slast'.ctor = 0)]_vars

C2_Witness ==
    slast.op = "rx_streamer" /\ slast.channels = <<1>> /\ slast.res = "ValueError"

\* C3: when supports_agc(direction, channel) reports false, enable_agc on
\* that channel fails with NotSupported and leaves the gain mode unchanged.
C3_EnableAgcNotSupported ==
    [][\A d \in Dirs, c \in ChannelIdx, b \in BOOLEAN :
        (enable_agc(d, c, b) /\ ChannelOf(c) # "Err" /\ ~agcCapable[ChannelOf(c)])
            => (last'.res = "NotSupported" /\ gainMode' = gainMode)]_vars

\* C4: a successful setter for one direction of channel 0 leaves what the
\* getter of the other direction of channel 0 returns unchanged.
C4_DirectionsIndependent ==
    [][\A d \in Dirs :
        /\ ((\E f \in FreqInputs : set_frequency(d, 0, f)) /\ last'.res = "Ok")
              => freq'[ChannelOf(0)] = freq[ChannelOf(0)]
        /\ ((\E r \in RateInputs : set_sample_rate(d, 0, r)) /\ last'.res = "Ok")
              => rate'[ChannelOf(0)] = rate[ChannelOf(0)]
        /\ ((\E b \in BwInputs : set_bandwidth(d, 0, b)) /\ last'.res = "Ok")
              => bw'[ChannelOf(0)] = bw[ChannelOf(0)]]_vars

C6_NotBeforeTime ==
    /\ []((slast.op \in {"activate_at", "deactivate_at"} /\ slast.time.some)
            => slast.at >= slast.time.t)
    /\ [][(pend.pc = "sleeping" /\ (strm' # strm \/ slast' # slast))
            => /\ pend'.pc = "idle"
               /\ now >= pend.time.t
               /\ slast'.op = pend.op /\ slast'.k = pend.k /\ slast'.time = pend.time]_vars

C6_Witness ==
    slast.op = "activate_at" /\ slast.time = SomeT(2) /\ slast.at = 2 /\ slast.res = "Ok"

\* C7: a set_frequency that returns an error leaves the tuned frequencies
\* and the attached expansion board as they were.
C7_FailedSetFrequencyNoEffect ==
    [][\A d \in Dirs, c \in ChannelIdx, f \in FreqInputs :
        (set_frequency(d, c, f) /\ last'.res \in Errors)
            => (freq' = freq /\ xb' = xb)]_vars

ProbedUnit(i) ==
    /\ HasKey(probed.devs[i], K_driver) /\ Lookup(probed.devs[i], K_driver) = V_bladerf
    /\ HasKey(probed.devs[i], K_bus_id)
    /\ Lookup(probed.devs[i], K_bus_id) = attached[i].bus_id
    /\ HasKey(probed.devs[i], K_address)
    /\ ParseU8(Lookup(probed.devs[i], K_address)) = attached[i].address

\* what probe returns, and open on an Args of probe
ProbeThenOpen ==
    /\ probed.res = "Ok" =>
          /\ Len(probed.devs) = Len(attached)
          /\ \A i \in 1..Len(probed.devs) : ProbedUnit(i)
    /\ \A i \in 1..Len(probed.devs) :
          (opened.res # "none" /\ opened.args = probed.devs[i]) =>
              /\ opened.how = "from_bus_addr"
              /\ opened.bus = attached[i].bus_id /\ opened.addr = attached[i].address
              /\ opened.res # "ValueError"
              /\ opened.res = "Ok" => opened.dev = i

OneOfBusAddr(args) ==
    \/ HasKey(args, K_bus_id) # HasKey(args, K_address)
    \/ GetAddress(args) = "ValueError"

NoneOfBusAddr(args) == ~HasKey(args, K_bus_id) /\ ~HasKey(args, K_address)

\* C9 as stated: probe's Args carry driver, bus_id and address of a unit,
\* and open on them opens that unit by bus id and address; open with one of
\* bus_id / address (or an unparsable one) fails with ValueError and opens
\* nothing; open with neither opens the first device.
C9_ProbeOpenAsStated ==
    /\ ProbeThenOpen
    /\ (opened.res # "none" /\ opened.args.ok /\ OneOfBusAddr(opened.args))
          => (opened.res = "ValueError" /\ opened.how = "none")
    /\ (opened.res # "none" /\ opened.args.ok /\ NoneOfBusAddr(opened.args))
          => opened.how = "from_first"

\* C9 amended: the same, where the two statements about open with one or
\* none of bus_id / address hold for Args without a usable fd key; on a
\* Linux build a parsable fd takes precedence and opens from the descriptor.
C9_ProbeOpen ==
    /\ ProbeThenOpen
    /\ (opened.res # "none" /\ opened.args.ok /\ OneOfBusAddr(opened.args)
          /\ ~(targetLinux /\ FdGiven(opened.args)))
          => (opened.res = "ValueError" /\ opened.how = "none")
    /\ (opened.res # "none" /\ opened.args.ok /\ NoneOfBusAddr(opened.args)
          /\ ~(targetLinux /\ FdGiven(opened.args)))
          => opened.how = "from_first"
    /\ (opened.res # "none" /\ opened.args.ok /\ targetLinux /\ FdGiven(opened.args))
          => opened.how = "from_fd"

C9_Witness ==
    /\ probed.res = "Ok" /\ Len(probed.devs) = 2
    /\ opened.args = probed.devs[2] /\ opened.res = "Ok" /\ opened.dev = 2
    /\ attached[1].bus_id = attached[2].bus_id

\* C10: after a successful enable_agc(direction, channel, b), agc(direction,
\* channel) returns b until the next successful enable_agc on the channel.
C10_AgcReadsBack ==
    (last.op = "agc" /\ last.channel = 0 /\ gainMode[ChannelOf(0)] # "Initial")
        => (last.flag = (gainMode[ChannelOf(0)] = "Default"))

====
